---- MODULE Spec2Model ----
(***************************************************************************)
(* Model of handler(context, session, flowfile) of                         *)
(* processors/extract_mp3_chunks_diagnostics.py: the loop that drives      *)
(* ffmpeg over successive 30 second windows and routes each extracted MP3  *)
(* segment to the 'success' relation.                                      *)
(*                                                                         *)
(* One action per statement group of the handler; pc is the position of    *)
(* the handler.  The host session, the file system and ffmpeg are the      *)
(* environment: their results are chosen with \E.                          *)
(*                                                                         *)
(* Assumptions about the environment: the log functions do not raise;      *)
(* os.path.exists / os.path.getsize / os.remove on the handler's own       *)
(* temporary file do not raise (the file has a single writer); the         *)
(* attribute getters and session.remove of the input do not raise.         *)
(***************************************************************************)
EXTENDS Integers, Sequences, FiniteSets, TLC

(* ---------------------------- bounds ----------------------------------- *)

\* The loop of the handler has no upper bound; the model stops allocating
\* temporary files once segment_index reaches MaxIndex.
MaxIndex == 3

(* ------------------------ program constants ---------------------------- *)

\* the literal 1024 of the two size checks (lines 94 and 105)
MIN_SIZE == 1024

\* CHUNK_DURATION = 30.0 seconds, kept in tenths of a second
CHUNK_DURATION == 300

(* ------------------------ Python values -------------------------------- *)

\* A value that is None or a str; a str is a sequence of one-character strings.
PyNone == [isNone |-> TRUE, s |-> <<>>]

Str(s) == [isNone |-> FALSE, s |-> s]

\* Python truthiness of an Optional[str]: None and "" are falsy.
Truthy(v) == ~v.isNone /\ v.s # <<>>

\* x or y
PyOr(x, y) == IF Truthy(x) THEN x ELSE y

\* '.' in s
HasDot(s) == \E i \in 1..Len(s) : s[i] = "."

\* index of the last '.' of s (s contains one)
LastDot(s) == CHOOSE i \in 1..Len(s) : s[i] = "." /\ \A j \in (i+1)..Len(s) : s[j] # "."

\* s.rsplit('.', 1)[0]
RSplitHead(s) == IF HasDot(s) THEN SubSeq(s, 1, LastDot(s) - 1) ELSE s

(* ------------------------ inputs --------------------------------------- *)

\* the values of the 'idol.reference' attribute tried: absent, "", "r"
RefValues == {PyNone, Str(<<>>), Str(<<"r">>)}

\* the values of the 'filename' attribute tried: absent, "", "a", "a.b", ".a", "a.b.c"
FilenameValues ==
    {PyNone, Str(<<>>), Str(<<"a">>), Str(<<"a", ".", "b">>), Str(<<".", "a">>),
     Str(<<"a", ".", "b", ".", "c">>)}

\* flowfile.getUuid()
Uuid == Str(<<"u">>)

\* The input records tried; present = FALSE is flowfile None.
FlowFiles ==
    {[present |-> FALSE, ref |-> PyNone, filename |-> PyNone]}
    \cup {[present |-> TRUE, ref |-> r, filename |-> f] : r \in RefValues, f \in FilenameValues}

\* exit codes of ffmpeg tried
ReturnCodes == {0, 1}

\* sizes in bytes of the file ffmpeg leaves at the temporary path
ArtifactSizes == {0, 500, 1023, 1024, 2000}

(* ------------------------ state ---------------------------------------- *)

VARIABLES
    pc,             \* position of the handler
    flowfile,       \* the input record handed to the handler
    source_link,    \* local of the handler
    base_filename,  \* local of the handler
    segment_index,  \* local of the handler
    temp_mp3_path,  \* local of the handler: the index that names the file, -1 before the loop
    result,         \* local of the handler: the CompletedProcess of the last subprocess.run
    mp3_flowfile,   \* local of the handler: the output record being built
    disk,           \* temporary files that exist: path -> size in bytes
    success,        \* records routed to the 'success' relation, in order
    log,            \* calls of logInfo / logWarn / logError, in order
    trace,          \* calls to the session, the file system and ffmpeg, in order
    toolLog,        \* what each completed ffmpeg run left: exit code and artifact
    commands,       \* the argument lists handed to subprocess.run, in order
    outcome         \* how the handler ended

vars == <<pc, flowfile, source_link, base_filename, segment_index, temp_mp3_path, result,
          mp3_flowfile, disk, success, log, trace, toolLog, commands, outcome>>

NoRecord == [index |-> -1, attrs |-> <<>>, content |-> -1]

NoResult == [returncode |-> 0, stderrOk |-> TRUE]

Ev(op, on, idx) == [op |-> op, on |-> on, idx |-> idx]

Lg(level, msg, arg) == [level |-> level, msg |-> msg, arg |-> arg]

\* os.path.exists(path)
Exists(path) == path \in DOMAIN disk

\* os.path.getsize(path) of an existing file
GetSize(path) == disk[path]

\* the file system after os.remove(path)
Removed(path) == [p \in (DOMAIN disk) \ {path} |-> disk[p]]

\* the file system after path is (over)written with size bytes
Written(path, size) == [p \in (DOMAIN disk) \cup {path} |-> IF p = path THEN size ELSE disk[p]]

Init ==
    /\ pc = "start"
    /\ flowfile \in FlowFiles
    /\ source_link = PyNone
    /\ base_filename = PyNone
    /\ segment_index = 0
    /\ temp_mp3_path = -1
    /\ result = NoResult
    /\ mp3_flowfile = NoRecord
    /\ disk = <<>>
    /\ success = <<>>
    /\ log = <<>>
    /\ trace = <<>>
    /\ toolLog = <<>>
    /\ commands = <<>>
    /\ outcome = "running"

(* ------------------------ input resolution ----------------------------- *)

\* a variant of lines 27-30 that disposes of the absent record before returning
RejectNoneRemoves ==
    /\ pc = "start"
    /\ ~flowfile.present
    /\ log' = log \o <<Lg("info", "starting", -1), Lg("error", "flowfile_none", -1)>>
    /\ trace' = Append(trace, Ev("session.remove", "input", -1))
    /\ pc' = "done"
    /\ outcome' = "rejected"
    /\ UNCHANGED <<flowfile, source_link, base_filename, segment_index, temp_mp3_path, result,
                   mp3_flowfile, disk, success, toolLog, commands>>

\* lines 24-30: flowfile is None
RejectNone ==
    /\ pc = "start"
    /\ ~flowfile.present
    /\ log' = log \o <<Lg("info", "starting", -1), Lg("error", "flowfile_none", -1)>>
    /\ pc' = "done"
    /\ outcome' = "rejected"
    /\ UNCHANGED <<flowfile, source_link, base_filename, segment_index, temp_mp3_path, result,
                   mp3_flowfile, disk, success, trace, toolLog, commands>>

\* a variant of lines 33-37 that prefers the filename to the reference
ResolvedLinkFilenameFirst(ff) == IF Truthy(ff.filename) THEN ff.filename ELSE PyOr(ff.ref, Uuid)

\* lines 33-37: the source link and the calls on the input record that compute it
ResolvedLink(ff) == IF Truthy(ff.ref) THEN ff.ref ELSE PyOr(ff.filename, Uuid)

LinkCalls(ff) ==
    <<Ev("getAttribute:idol.reference", "input", -1)>>
    \o (IF Truthy(ff.ref) THEN <<>> ELSE <<Ev("getAttribute:filename", "input", -1)>>)
    \o (IF Truthy(ff.ref) \/ Truthy(ff.filename) THEN <<>> ELSE <<Ev("getUuid", "input", -1)>>)

\* lines 45-46: the base name and the calls on the input record that compute it
ResolvedBase(ff) ==
    IF Truthy(ff.filename) /\ HasDot(ff.filename.s)
    THEN Str(RSplitHead(ff.filename.s))
    ELSE Uuid

BaseCalls(ff) ==
    <<Ev("getAttribute:filename", "input", -1)>>
    \o (IF Truthy(ff.filename) /\ HasDot(ff.filename.s) THEN <<>> ELSE <<Ev("getUuid", "input", -1)>>)

\* lines 24-48
ResolveInput ==
    /\ pc = "start"
    /\ flowfile.present
    /\ source_link' = ResolvedLink(flowfile)
    /\ base_filename' = ResolvedBase(flowfile)
    /\ trace' = trace \o LinkCalls(flowfile) \o BaseCalls(flowfile)
    /\ log' = log \o <<Lg("info", "starting", -1)>>
                  \o (IF Truthy(flowfile.ref) THEN <<>> ELSE <<Lg("error", "reference_missing", -1)>>)
                  \o <<Lg("info", "using_source", -1)>>
    /\ pc' = "remove"
    /\ UNCHANGED <<flowfile, segment_index, temp_mp3_path, result, mp3_flowfile, disk, success,
                   toolLog, outcome, commands>>

\* a variant of line 53 that keeps the input record
SessionRemoveSkipped ==
    /\ pc = "remove"
    /\ segment_index' = 0
    /\ pc' = "loop"
    /\ UNCHANGED <<flowfile, source_link, base_filename, temp_mp3_path, result, mp3_flowfile,
                   disk, success, log, trace, toolLog, outcome, commands>>

\* line 53: session.remove(flowfile); lines 57-58
SessionRemove ==
    /\ pc = "remove"
    /\ trace' = Append(trace, Ev("session.remove", "input", -1))
    /\ segment_index' = 0
    /\ pc' = "loop"
    /\ UNCHANGED <<flowfile, source_link, base_filename, temp_mp3_path, result, mp3_flowfile,
                   disk, success, log, toolLog, outcome, commands>>

(* ------------------------ formatting and the ffmpeg command ---------- *)

DigitChar(d) == <<"0", "1", "2", "3", "4", "5", "6", "7", "8", "9">>[d + 1]

RECURSIVE Decimal(_)
\* str(n) of a non-negative int
Decimal(n) == IF n < 10 THEN <<DigitChar(n)>> ELSE Append(Decimal(n \div 10), DigitChar(n % 10))

\* f"{n:03d}"
Pad03(n) == IF n < 10 THEN <<"0", "0">> \o Decimal(n)
            ELSE IF n < 100 THEN <<"0">> \o Decimal(n) ELSE Decimal(n)

\* str(x) of a float with one decimal below 1e16, x given in tenths
StrFloat(tenths) == Decimal(tenths \div 10) \o <<".">> \o Decimal(tenths % 10)

\* a variant of line 61 that starts one window late
StartTimeShifted(idx) == (idx + 1) * CHUNK_DURATION

\* line 61: start_time = segment_index * CHUNK_DURATION, in tenths of a second
StartTime(idx) == idx * CHUNK_DURATION

\* lines 64-67: the path getTempFile returns for prefix f"segment-{idx:03d}" and
\* extension '.mp3' (the random middle part of the name is left out)
TempPathName(idx) == <<"segment-">> \o Pad03(idx) \o <<".mp3">>

\* lines 73-83: ffmpeg_command; temp_mpg_path is source_link (line 42)
FfmpegCommand(idx) ==
    <<<<"ffmpeg">>,
      <<"-ss">>, StrFloat(StartTime(idx)),
      <<"-i">>, source_link.s,
      <<"-t">>, StrFloat(CHUNK_DURATION),
      <<"-vn">>,
      <<"-acodec">>, <<"libmp3lame">>,
      <<"-q:a">>, <<"2">>,
      <<"-y">>,
      TempPathName(idx)>>

(* ------------------------ the loop: allocation and ffmpeg -------------- *)

\* lines 60-67: getTempFile creates an empty file and returns its path
GetTempFile ==
    /\ pc = "loop"
    /\ segment_index < MaxIndex
    /\ temp_mp3_path' = segment_index
    /\ disk' = Written(segment_index, 0)
    /\ trace' = Append(trace, Ev("getTempFile", "temp", segment_index))
    /\ pc' = "run"
    /\ UNCHANGED <<flowfile, source_link, base_filename, segment_index, result, mp3_flowfile,
                   success, log, toolLog, outcome, commands>>

\* lines 64-67 are outside the try statement: an exception of getTempFile leaves the handler
GetTempFileRaises ==
    /\ pc = "loop"
    /\ segment_index < MaxIndex
    /\ trace' = Append(trace, Ev("getTempFile:raised", "temp", segment_index))
    /\ pc' = "done"
    /\ outcome' = "raised"
    /\ UNCHANGED <<flowfile, source_link, base_filename, segment_index, temp_mp3_path, result,
                   mp3_flowfile, disk, success, log, toolLog, commands>>

\* lines 70-90: ffmpeg runs to completion; it leaves any exit code, and at the
\* temporary path no file or a file of any size
RunTool ==
    /\ pc = "run"
    /\ \E rc \in ReturnCodes, ok \in BOOLEAN, ex \in BOOLEAN, sz \in ArtifactSizes :
          /\ result' = [returncode |-> rc, stderrOk |-> ok]
          /\ disk' = IF ex THEN Written(temp_mp3_path, sz) ELSE Removed(temp_mp3_path)
          /\ toolLog' = Append(toolLog, [rc |-> rc, exists |-> ex, size |-> IF ex THEN sz ELSE 0])
    /\ log' = Append(log, Lg("info", "executing_ffmpeg", segment_index))
    /\ trace' = Append(trace, Ev("subprocess.run", "tool", segment_index))
    /\ commands' = Append(commands, FfmpegCommand(segment_index))
    /\ pc' = "classify"
    /\ UNCHANGED <<flowfile, source_link, base_filename, segment_index, temp_mp3_path,
                   mp3_flowfile, success, outcome>>

\* line 85: subprocess.run raises (ffmpeg cannot be started)
RunToolRaises ==
    /\ pc = "run"
    /\ log' = Append(log, Lg("info", "executing_ffmpeg", segment_index))
    /\ trace' = Append(trace, Ev("subprocess.run:raised", "tool", segment_index))
    /\ commands' = Append(commands, FfmpegCommand(segment_index))
    /\ pc' = "except"
    /\ UNCHANGED <<flowfile, source_link, base_filename, segment_index, temp_mp3_path, result,
                   mp3_flowfile, disk, success, toolLog, outcome>>

(* ------------------------ the loop: classification --------------------- *)

\* line 94: os.path.exists(temp_mp3_path) and os.path.getsize(temp_mp3_path) > 1024
\* (and evaluates its right operand only when the left one is true)
FinalSegmentCreated(path) == IF Exists(path) THEN GetSize(path) > MIN_SIZE ELSE FALSE

\* a variant of the test of line 97 that treats every segment as the first
IsFirstSegmentAny(idx) == TRUE

\* line 97: segment_index == 0
IsFirstSegment(idx) == idx = 0

\* a variant of the test of line 105 without the size check
TooSmallOrMissingNoSize(path) == ~Exists(path)

\* line 105: not os.path.exists(temp_mp3_path) or os.path.getsize(temp_mp3_path) < 1024
\* (or evaluates its right operand only when the left one is false)
TooSmallOrMissing(path) == IF ~Exists(path) THEN TRUE ELSE GetSize(path) < MIN_SIZE

\* lines 92-95, 102: non-zero exit and a file above the limit: log, then break
FinalSegmentBreak ==
    /\ pc = "classify"
    /\ result.returncode # 0
    /\ FinalSegmentCreated(temp_mp3_path)
    /\ log' = Append(log, Lg("info", "final_segment_created", segment_index))
    /\ pc' = "summary"
    /\ UNCHANGED <<flowfile, source_link, base_filename, segment_index, temp_mp3_path, result,
                   mp3_flowfile, disk, success, trace, toolLog, outcome, commands>>

\* lines 92, 97-100: non-zero exit on the first segment without such a file:
\* result.stderr.decode() raises on bytes that are not UTF-8, before logError
\* is called; otherwise the error is logged and an Exception is raised
FirstSegmentFatal ==
    /\ pc = "classify"
    /\ result.returncode # 0
    /\ ~FinalSegmentCreated(temp_mp3_path)
    /\ IsFirstSegment(segment_index)
    /\ log' = IF result.stderrOk
              THEN Append(log, Lg("error", "ffmpeg_failed_first_segment_stderr", segment_index))
              ELSE log
    /\ pc' = "except"
    /\ UNCHANGED <<flowfile, source_link, base_filename, segment_index, temp_mp3_path, result,
                   mp3_flowfile, disk, success, trace, toolLog, outcome, commands>>

\* lines 92, 102: non-zero exit on a later segment without such a file: break
EndOfStreamBreak ==
    /\ pc = "classify"
    /\ result.returncode # 0
    /\ ~FinalSegmentCreated(temp_mp3_path)
    /\ ~IsFirstSegment(segment_index)
    /\ pc' = "summary"
    /\ UNCHANGED <<flowfile, source_link, base_filename, segment_index, temp_mp3_path, result,
                   mp3_flowfile, disk, success, log, trace, toolLog, outcome, commands>>

\* a variant of lines 105-107 that raises instead of breaking
TooSmallRaises ==
    /\ pc = "classify"
    /\ result.returncode = 0
    /\ TooSmallOrMissing(temp_mp3_path)
    /\ log' = Append(log, Lg("warn", "extraction_failed_too_small", segment_index))
    /\ pc' = "except"
    /\ UNCHANGED <<flowfile, source_link, base_filename, segment_index, temp_mp3_path, result,
                   mp3_flowfile, disk, success, trace, toolLog, outcome, commands>>

\* lines 105-107: zero exit and the file is missing or too small: warn, break
TooSmallBreak ==
    /\ pc = "classify"
    /\ result.returncode = 0
    /\ TooSmallOrMissing(temp_mp3_path)
    /\ log' = Append(log, Lg("warn", "extraction_failed_too_small", segment_index))
    /\ pc' = "summary"
    /\ UNCHANGED <<flowfile, source_link, base_filename, segment_index, temp_mp3_path, result,
                   mp3_flowfile, disk, success, trace, toolLog, outcome, commands>>

\* a variant of lines 105-109 that breaks on a valid segment
SegmentExtractedBreaks ==
    /\ pc = "classify"
    /\ result.returncode = 0
    /\ ~TooSmallOrMissing(temp_mp3_path)
    /\ log' = Append(log, Lg("info", "segment_extracted", segment_index))
    /\ pc' = "summary"
    /\ UNCHANGED <<flowfile, source_link, base_filename, segment_index, temp_mp3_path, result,
                   mp3_flowfile, disk, success, trace, toolLog, outcome, commands>>

\* lines 105, 109: zero exit and the file is large enough: go on to emit it
SegmentExtracted ==
    /\ pc = "classify"
    /\ result.returncode = 0
    /\ ~TooSmallOrMissing(temp_mp3_path)
    /\ log' = Append(log, Lg("info", "segment_extracted", segment_index))
    /\ pc' = "create"
    /\ UNCHANGED <<flowfile, source_link, base_filename, segment_index, temp_mp3_path, result,
                   mp3_flowfile, disk, success, trace, toolLog, outcome, commands>>

(* ------------------------ the loop: emission --------------------------- *)

\* lines 115-121: the attributes in the order they are put, and their values
AttrNames == <<"filename", "mime.type", "original.link", "audio.chunk.start", "audio.chunk.duration">>

AttrValue(name) ==
    CASE name = "filename" -> base_filename.s \o <<"_chunk_">> \o Pad03(segment_index) \o <<".mp3">>
      [] name = "mime.type" -> <<"audio/mp3">>
      [] name = "original.link" -> source_link.s
      [] name = "audio.chunk.start" -> StrFloat(StartTime(segment_index))
      [] name = "audio.chunk.duration" -> StrFloat(CHUNK_DURATION)

\* the record after session.putAttribute(rec, name, value)
WithAttr(rec, name, value) ==
    [rec EXCEPT !.attrs = [n \in (DOMAIN rec.attrs) \cup {name} |->
                              IF n = name THEN value ELSE rec.attrs[n]]]

\* number of attributes put so far
AttrCount(rec) == Cardinality(DOMAIN rec.attrs)

\* line 112: mp3_flowfile = session.create()
SessionCreate ==
    /\ pc = "create"
    /\ mp3_flowfile' = [index |-> segment_index, attrs |-> <<>>, content |-> -1]
    /\ trace' = Append(trace, Ev("session.create", "segment", segment_index))
    /\ pc' = "attrs"
    /\ UNCHANGED <<flowfile, source_link, base_filename, segment_index, temp_mp3_path, result,
                   disk, success, log, toolLog, outcome, commands>>

\* line 112 raises
SessionCreateRaises ==
    /\ pc = "create"
    /\ trace' = Append(trace, Ev("session.create:raised", "segment", segment_index))
    /\ pc' = "except"
    /\ UNCHANGED <<flowfile, source_link, base_filename, segment_index, temp_mp3_path, result,
                   mp3_flowfile, disk, success, log, toolLog, outcome, commands>>

\* lines 115-121: the next session.putAttribute
PutAttribute ==
    /\ pc = "attrs"
    /\ LET name == AttrNames[AttrCount(mp3_flowfile) + 1]
       IN  /\ mp3_flowfile' = WithAttr(mp3_flowfile, name, AttrValue(name))
           /\ trace' = Append(trace, Ev("session.putAttribute", "segment", segment_index))
           /\ pc' = IF AttrCount(mp3_flowfile) + 1 = Len(AttrNames) THEN "write" ELSE "attrs"
    /\ UNCHANGED <<flowfile, source_link, base_filename, segment_index, temp_mp3_path, result,
                   disk, success, log, toolLog, outcome, commands>>

\* one of lines 117-121 raises
PutAttributeRaises ==
    /\ pc = "attrs"
    /\ trace' = Append(trace, Ev("session.putAttribute:raised", "segment", segment_index))
    /\ pc' = "except"
    /\ UNCHANGED <<flowfile, source_link, base_filename, segment_index, temp_mp3_path, result,
                   mp3_flowfile, disk, success, log, toolLog, outcome, commands>>

\* a variant of lines 124-128 that goes on to the removal without writing the content
SessionWriteSkipped ==
    /\ pc = "write"
    /\ pc' = "remove_temp"
    /\ UNCHANGED <<flowfile, source_link, base_filename, segment_index, temp_mp3_path, result,
                   mp3_flowfile, disk, success, log, trace, toolLog, outcome, commands>>

\* lines 124-128: session.write copies the bytes of the temporary file into the record
SessionWrite ==
    /\ pc = "write"
    /\ Exists(temp_mp3_path)
    /\ mp3_flowfile' = [mp3_flowfile EXCEPT !.content = GetSize(temp_mp3_path)]
    /\ trace' = Append(trace, Ev("session.write", "segment", segment_index))
    /\ pc' = "remove_temp"
    /\ UNCHANGED <<flowfile, source_link, base_filename, segment_index, temp_mp3_path, result,
                   disk, success, log, toolLog, outcome, commands>>

\* line 128 raises
SessionWriteRaises ==
    /\ pc = "write"
    /\ trace' = Append(trace, Ev("session.write:raised", "segment", segment_index))
    /\ pc' = "except"
    /\ UNCHANGED <<flowfile, source_link, base_filename, segment_index, temp_mp3_path, result,
                   mp3_flowfile, disk, success, log, toolLog, outcome, commands>>

\* line 131: if os.path.exists(temp_mp3_path): os.remove(temp_mp3_path)
RemoveTemp ==
    /\ pc = "remove_temp"
    /\ disk' = IF Exists(temp_mp3_path) THEN Removed(temp_mp3_path) ELSE disk
    /\ trace' = IF Exists(temp_mp3_path)
                THEN Append(trace, Ev("os.remove", "temp", segment_index))
                ELSE trace
    /\ pc' = "transfer"
    /\ UNCHANGED <<flowfile, source_link, base_filename, segment_index, temp_mp3_path, result,
                   mp3_flowfile, success, log, toolLog, outcome, commands>>

\* a variant of lines 135-136 that logs the transfer without making it
SessionTransferDropped ==
    /\ pc = "transfer"
    /\ log' = Append(log, Lg("info", "segment_transferred", segment_index))
    /\ mp3_flowfile' = NoRecord
    /\ pc' = "advance"
    /\ UNCHANGED <<flowfile, source_link, base_filename, segment_index, temp_mp3_path, result,
                   disk, success, trace, toolLog, outcome, commands>>

\* lines 135-136: log, then session.transfer(mp3_flowfile, 'success')
SessionTransfer ==
    /\ pc = "transfer"
    /\ log' = Append(log, Lg("info", "segment_transferred", segment_index))
    /\ success' = Append(success, mp3_flowfile)
    /\ mp3_flowfile' = NoRecord
    /\ trace' = Append(trace, Ev("session.transfer:success", "segment", segment_index))
    /\ pc' = "advance"
    /\ UNCHANGED <<flowfile, source_link, base_filename, segment_index, temp_mp3_path, result,
                   disk, toolLog, outcome, commands>>

\* a variant of line 136 raising in which the exception is swallowed and the loop goes on
SessionTransferRaisesIgnored ==
    /\ pc = "transfer"
    /\ log' = Append(log, Lg("info", "segment_transferred", segment_index))
    /\ trace' = Append(trace, Ev("session.transfer:raised", "segment", segment_index))
    /\ pc' = "advance"
    /\ UNCHANGED <<flowfile, source_link, base_filename, segment_index, temp_mp3_path, result,
                   mp3_flowfile, disk, success, toolLog, outcome, commands>>

\* line 136 raises
SessionTransferRaises ==
    /\ pc = "transfer"
    /\ log' = Append(log, Lg("info", "segment_transferred", segment_index))
    /\ trace' = Append(trace, Ev("session.transfer:raised", "segment", segment_index))
    /\ pc' = "except"
    /\ UNCHANGED <<flowfile, source_link, base_filename, segment_index, temp_mp3_path, result,
                   mp3_flowfile, disk, success, toolLog, outcome, commands>>

\* a variant of line 138 that advances by two
AdvanceByTwo ==
    /\ pc = "advance"
    /\ segment_index' = segment_index + 2
    /\ pc' = "loop"
    /\ UNCHANGED <<flowfile, source_link, base_filename, temp_mp3_path, result, mp3_flowfile,
                   disk, success, log, trace, toolLog, outcome, commands>>

\* line 138: segment_index += 1, and back to the head of the loop
Advance ==
    /\ pc = "advance"
    /\ segment_index' = segment_index + 1
    /\ pc' = "loop"
    /\ UNCHANGED <<flowfile, source_link, base_filename, temp_mp3_path, result, mp3_flowfile,
                   disk, success, log, trace, toolLog, outcome, commands>>

(* ------------------------ the ends of the handler ---------------------- *)

\* a variant of lines 140-149 that takes the routed records back
ExceptHandlerRollback ==
    /\ pc = "except"
    /\ log' = Append(log, Lg("error", "critical_error", segment_index))
    /\ disk' = IF Exists(temp_mp3_path) THEN Removed(temp_mp3_path) ELSE disk
    /\ trace' = IF Exists(temp_mp3_path)
                THEN Append(trace, Ev("os.remove", "temp", segment_index))
                ELSE trace
    /\ success' = <<>>
    /\ pc' = "done"
    /\ outcome' = "aborted"
    /\ UNCHANGED <<flowfile, source_link, base_filename, segment_index, temp_mp3_path, result,
                   mp3_flowfile, toolLog, commands>>

\* a variant of lines 140-149 that goes on with the next segment instead of returning
ExceptHandlerContinues ==
    /\ pc = "except"
    /\ log' = Append(log, Lg("error", "critical_error", segment_index))
    /\ disk' = IF Exists(temp_mp3_path) THEN Removed(temp_mp3_path) ELSE disk
    /\ trace' = IF Exists(temp_mp3_path)
                THEN Append(trace, Ev("os.remove", "temp", segment_index))
                ELSE trace
    /\ segment_index' = segment_index + 1
    /\ pc' = "loop"
    /\ UNCHANGED <<flowfile, source_link, base_filename, outcome, temp_mp3_path, result,
                   mp3_flowfile, success, toolLog, commands>>

\* lines 140-149: log, remove the temporary file of this iteration, return
ExceptHandler ==
    /\ pc = "except"
    /\ log' = Append(log, Lg("error", "critical_error", segment_index))
    /\ disk' = IF Exists(temp_mp3_path) THEN Removed(temp_mp3_path) ELSE disk
    /\ trace' = IF Exists(temp_mp3_path)
                THEN Append(trace, Ev("os.remove", "temp", segment_index))
                ELSE trace
    /\ pc' = "done"
    /\ outcome' = "aborted"
    /\ UNCHANGED <<flowfile, source_link, base_filename, segment_index, temp_mp3_path, result,
                   mp3_flowfile, success, toolLog, commands>>

\* lines 153-158: the completion summary after a break
Completion ==
    /\ pc = "summary"
    /\ log' = log \o <<IF segment_index = 0
                       THEN Lg("error", "no_segments", segment_index)
                       ELSE Lg("info", "chunking_complete", segment_index),
                       Lg("info", "process_finished", -1)>>
    /\ pc' = "done"
    /\ outcome' = "completed"
    /\ UNCHANGED <<flowfile, source_link, base_filename, segment_index, temp_mp3_path, result,
                   mp3_flowfile, disk, success, trace, toolLog, commands>>

Next ==
    \/ RejectNone
    \/ ResolveInput
    \/ SessionRemove
    \/ GetTempFile
    \/ GetTempFileRaises
    \/ RunTool
    \/ RunToolRaises
    \/ FinalSegmentBreak
    \/ FirstSegmentFatal
    \/ EndOfStreamBreak
    \/ TooSmallBreak
    \/ SegmentExtracted
    \/ SessionCreate
    \/ SessionCreateRaises
    \/ PutAttribute
    \/ PutAttributeRaises
    \/ SessionWrite
    \/ SessionWriteRaises
    \/ RemoveTemp
    \/ SessionTransfer
    \/ SessionTransferRaises
    \/ Advance
    \/ ExceptHandler
    \/ Completion

Spec == Init /\ [][Next]_vars

\* The handler is one sequential thread: as long as a statement is left to
\* run and the calls it waits for return, it runs.
FairSpec == Init /\ [][Next]_vars /\ WF_vars(Next)

(* ======================== properties =================================== *)

\* positions of the calls named op in the trace
Calls(tr, op) == {i \in 1..Len(tr) : tr[i].op = op}

\* positions of the calls named op for segment idx in the trace
CallsFor(tr, op, idx) == {i \in 1..Len(tr) : tr[i].op = op /\ tr[i].idx = idx}

\* the log holds an entry of this level and message
Logged(level, msg) == \E i \in 1..Len(log) : log[i].level = level /\ log[i].msg = msg

\* the artifact an ffmpeg run left exists and has at least MIN_SIZE bytes
ValidArtifact(r) == r.exists /\ r.size >= MIN_SIZE

\* the first n ffmpeg runs exited zero and left a valid artifact
AllAccepted(n) == \A i \in 1..n : toolLog[i].rc = 0 /\ ValidArtifact(toolLog[i])

\* the handler has ended and ffmpeg ran n+1 times, the first n accepted
EndedAfter(n) == outcome # "running" /\ Len(toolLog) = n + 1 /\ AllAccepted(n)

\* the indices of the routed records are 0, 1, ..., n-1 in this order
RoutedUpTo(n) == Len(success) = n /\ \A i \in 1..n : success[i].index = i - 1

(* C1: a record is routed to 'success', or even created, only for an      *)
(* iteration whose temporary artifact existed with at least 1024 bytes     *)
(* when it was classified, whatever the exit code and the index; the       *)
(* content of the record is that artifact.                                 *)
C1_OnlyValidArtifactsEmitted ==
    /\ \A i \in 1..Len(success) :
          /\ success[i].index + 1 \in 1..Len(toolLog)
          /\ ValidArtifact(toolLog[success[i].index + 1])
          /\ success[i].content = toolLog[success[i].index + 1].size
    /\ \A i \in 1..Len(toolLog) :
          ~ValidArtifact(toolLog[i]) =>
              /\ CallsFor(trace, "session.create", i - 1) = {}
              /\ CallsFor(trace, "session.transfer:success", i - 1) = {}

\* a run that routed a record and then met a 500 byte artifact
C1_Witness ==
    /\ pc = "done"
    /\ Len(success) >= 1
    /\ \E i \in 1..Len(toolLog) : toolLog[i].exists /\ toolLog[i].size = 500

(* C2: the indices of the records routed to 'success' so far are 0, 1,    *)
(* ..., k-1 in this order, and segment_index is advanced past an index     *)
(* only after the record of that index has been routed.                    *)
C2_ContiguousIndices ==
    /\ RoutedUpTo(Len(success))
    /\ segment_index <= Len(success)
    /\ Len(success) <= segment_index + 1
    /\ (Len(success) = segment_index + 1) <=> (pc = "advance")

\* three records routed
C2_Witness == Len(success) = 3 /\ segment_index = 3

(* C3: when the handler has returned after entering the loop, no          *)
(* temporary file of this run exists.                                      *)
C3_NoTempFileAfterReturn ==
    (outcome \in {"completed", "aborted"}) => DOMAIN disk = {}

(* C4: for every n, when ffmpeg exits zero with a valid artifact for       *)
(* indices 0..n-1 and non-zero with a valid artifact at index n, exactly   *)
(* the n+1 segments 0..n are routed to 'success' and the loop stops.       *)
C4_FinalSegmentEmitted ==
    \A n \in 0..(MaxIndex - 1) :
        (/\ EndedAfter(n)
         /\ toolLog[n + 1].rc # 0
         /\ ValidArtifact(toolLog[n + 1]))
        => RoutedUpTo(n + 1)

(* C5: when ffmpeg exits non-zero at index 0 without a valid artifact, an  *)
(* error carrying ffmpeg's standard error is logged, no record is created  *)
(* or routed, ffmpeg is not run again and the handler returns without the  *)
(* completion summary.                                                     *)
C5_FirstSegmentFatal ==
    (/\ EndedAfter(0)
     /\ toolLog[1].rc # 0
     /\ ~ValidArtifact(toolLog[1]))
    => /\ Logged("error", "ffmpeg_failed_first_segment_stderr")
       /\ success = <<>>
       /\ Calls(trace, "session.create") = {}
       /\ Cardinality(Calls(trace, "subprocess.run")) = 1
       /\ outcome = "aborted"
       /\ ~Logged("error", "no_segments")
       /\ ~Logged("info", "process_finished")

(* C6: for every n >= 1, when ffmpeg exits zero with a valid artifact for  *)
(* indices 0..n-1 and non-zero without a valid artifact at index n,        *)
(* exactly the n segments 0..n-1 are routed, nothing is created for index  *)
(* n, and the handler ends with the completion summary reporting n.        *)
C6_EndOfStreamCount ==
    \A n \in 1..(MaxIndex - 1) :
        (/\ EndedAfter(n)
         /\ toolLog[n + 1].rc # 0
         /\ ~ValidArtifact(toolLog[n + 1]))
        => /\ RoutedUpTo(n)
           /\ CallsFor(trace, "session.create", n) = {}
           /\ outcome = "completed"
           /\ ~Logged("error", "critical_error")
           /\ \E i \in 1..Len(log) :
                 log[i] = Lg("info", "chunking_complete", n)

\* two segments accepted, then a non-zero exit with no file at index 2
C6_Witness ==
    /\ outcome = "completed"
    /\ Len(toolLog) = 3
    /\ toolLog[3].rc # 0
    /\ ~toolLog[3].exists
    /\ Len(success) = 2

(* C7, as stated: in an iteration that routes its record, the temporary    *)
(* artifact is deleted only after the record was handed to 'success'.      *)
C7_DeleteAfterRoute ==
    \A i \in Calls(trace, "os.remove") :
        \A j \in CallsFor(trace, "session.transfer:success", trace[i].idx) : j < i

(* C7, amended: in an iteration that routes its record, the record is      *)
(* created, its five attributes are put and the bytes of the artifact are  *)
(* written into it before the temporary artifact is deleted, and the       *)
(* artifact is deleted before the record is handed to 'success'.           *)
C7_DeleteAfterWriteBeforeRoute ==
    \A j \in Calls(trace, "session.transfer:success") :
        LET k == trace[j].idx
        IN  \E c \in CallsFor(trace, "session.create", k),
               w \in CallsFor(trace, "session.write", k),
               d \in CallsFor(trace, "os.remove", k) :
               /\ c < w /\ w < d /\ d < j
               /\ Cardinality({a \in CallsFor(trace, "session.putAttribute", k) :
                                  c < a /\ a < w}) = Len(AttrNames)
               /\ DOMAIN success[k + 1].attrs = {AttrNames[a] : a \in 1..Len(AttrNames)}
               /\ success[k + 1].content >= MIN_SIZE

\* two records routed
C7_Witness == Cardinality(Calls(trace, "session.transfer:success")) = 2

(* C8: no exception raised in a step of an iteration leaves the handler.   *)
C8_NoExceptionEscapes == outcome # "raised"

(* C9: in a run that reaches the loop the input record is removed exactly  *)
(* once and before any output record is created; it is never transferred,  *)
(* and nothing is called on it after its removal.                          *)
C9_InputDisposedFirst ==
    LET removes == Calls(trace, "session.remove")
        reached == flowfile.present /\ pc \notin {"start", "remove"}
    IN  /\ Cardinality(removes) <= 1
        /\ reached => Cardinality(removes) = 1
        /\ \A i \in removes : \A j \in 1..Len(trace) :
              (trace[j].on = "input" /\ j # i) => j < i
        /\ \A j \in 1..Len(trace) :
              trace[j].on # "input" => \E i \in removes : i < j
        /\ \A j \in 1..Len(trace) :
              trace[j].on = "input" =>
                  trace[j].op \notin {"session.transfer:success", "session.transfer:raised"}

\* the input was removed and an output record was created
C9_Witness ==
    /\ Calls(trace, "session.remove") # {}
    /\ Calls(trace, "session.create") # {}

\* the calls that C10 is about, in order
Effects(tr) ==
    SelectSeq(tr, LAMBDA e : e.op \in {"subprocess.run", "subprocess.run:raised",
                                        "session.create", "session.create:raised",
                                        "session.transfer:success", "session.transfer:raised"})

(* C10: the step that handles an exception, and every step after it,       *)
(* leaves the records routed to 'success' as they are and runs ffmpeg,     *)
(* creates a record or routes one no more.                                 *)
C10_AbortKeepsRouted ==
    [][(pc = "except" \/ outcome = "aborted")
       => (success' = success /\ Effects(trace') = Effects(trace))]_vars

\* an abort in the third iteration, after two records were routed
C10_Witness == outcome = "aborted" /\ Len(success) = 2

\* the calls of subprocess.run, returned or raised
Runs(tr) == {i \in 1..Len(tr) : tr[i].op \in {"subprocess.run", "subprocess.run:raised"}}

\* the calls that raised
Raises(tr) ==
    {i \in 1..Len(tr) :
        tr[i].op \in {"getTempFile:raised", "subprocess.run:raised", "session.create:raised",
                      "session.putAttribute:raised", "session.write:raised",
                      "session.transfer:raised"}}

\* an ffmpeg run that does not lead to an accepted segment
StopResult(r) == r.rc # 0 \/ ~ValidArtifact(r)

\* some ffmpeg run gave a stopping result, or some call raised
StopSeen == (\E i \in 1..Len(toolLog) : StopResult(toolLog[i])) \/ Raises(trace) # {}

(* C11: every record routed for segment i carries audio.chunk.start =       *)
(* str(i * 30.0), which is also the -ss argument handed to ffmpeg in that   *)
(* iteration, audio.chunk.duration = "30.0", and a filename whose chunk     *)
(* number is i.                                                             *)
C11_ChunkAttributes ==
    \A i \in 1..Len(success) :
        LET r == success[i]
            k == r.index
        IN  /\ r.attrs["audio.chunk.start"] = Decimal(30 * k) \o <<".", "0">>
            /\ (k = 0) => r.attrs["audio.chunk.start"] = <<"0", ".", "0">>
            /\ (k = 1) => r.attrs["audio.chunk.start"] = <<"3", "0", ".", "0">>
            /\ (k = 2) => r.attrs["audio.chunk.start"] = <<"6", "0", ".", "0">>
            /\ k + 1 \in 1..Len(commands)
            /\ commands[k + 1][2] = <<"-ss">>
            /\ commands[k + 1][3] = r.attrs["audio.chunk.start"]
            /\ commands[k + 1][6] = <<"-t">>
            /\ commands[k + 1][7] = <<"3", "0", ".", "0">>
            /\ r.attrs["audio.chunk.duration"] = <<"3", "0", ".", "0">>
            /\ r.attrs["filename"] =
                  base_filename.s \o <<"_chunk_">> \o Pad03(k) \o <<".mp3">>
            /\ (k = 2) => SubSeq(r.attrs["filename"], Len(base_filename.s) + 2,
                                 Len(r.attrs["filename"])) = <<"0", "0", "2", ".mp3">>

\* the records of segments 0, 1 and 2 are routed
C11_Witness == Len(success) = 3 /\ success[3].index = 2

\* the result of the last ffmpeg run is one the claim calls END_OF_STREAM
EndOfStreamResult(n) ==
    LET r == toolLog[n + 1]
    IN  \/ r.rc # 0 /\ ValidArtifact(r)
        \/ r.rc # 0 /\ ~ValidArtifact(r) /\ n > 0
        \/ r.rc = 0 /\ ~ValidArtifact(r)

\* the completion summary with the number of routed records is in the log,
\* as an error when the number is 0 and as an info otherwise
SummaryLogged ==
    LET c == Len(success)
    IN  /\ (c = 0) => (\E i \in 1..Len(log) : log[i] = Lg("error", "no_segments", 0))
        /\ (c = 0) => ~Logged("info", "chunking_complete")
        /\ (c > 0) => (\E i \in 1..Len(log) : log[i] = Lg("info", "chunking_complete", c))
        /\ (c > 0) => ~Logged("error", "no_segments")

(* C12: whenever the loop stops by END_OF_STREAM (non-zero exit with a      *)
(* valid artifact, non-zero exit at index > 0 without one, zero exit with   *)
(* a missing or too small artifact), the completion summary is logged with  *)
(* the number of routed records, as an error iff that number is 0.          *)
C12_SummaryAfterEndOfStream ==
    \A n \in 0..(MaxIndex - 1) :
        (EndedAfter(n) /\ EndOfStreamResult(n))
        => (outcome = "completed" /\ SummaryLogged)

(* C13: with flowfile None the handler logs an error and returns without    *)
(* any call to the session, to getTempFile or to ffmpeg.                    *)
C13_NoneInputRejected ==
    ~flowfile.present =>
        /\ trace = <<>>
        /\ commands = <<>>
        /\ success = <<>>
        /\ mp3_flowfile = NoRecord
        /\ DOMAIN disk = {}
        /\ pc \in {"start", "done"}
        /\ (pc = "done") => (outcome = "rejected" /\ Logged("error", "flowfile_none"))

\* the handler has returned on a None input
C13_Witness == ~flowfile.present /\ outcome = "rejected"

(* C14: the validity test is the same in every classification branch       *)
(* (exists and size >= 1024); a 1024 byte artifact with a non-zero exit is  *)
(* accepted as the final segment; the run is FATAL only when the exit code  *)
(* is non-zero, the index 0 and the artifact missing or below 1024 bytes.   *)
C14_SameValidityEverywhere ==
    /\ (pc = "classify") =>
          /\ FinalSegmentCreated(temp_mp3_path) <=> ~TooSmallOrMissing(temp_mp3_path)
          /\ FinalSegmentCreated(temp_mp3_path) <=> ValidArtifact(toolLog[Len(toolLog)])
    /\ Logged("error", "ffmpeg_failed_first_segment_stderr") =>
          (toolLog[1].rc # 0 /\ ~ValidArtifact(toolLog[1]))
    /\ \A n \in 0..(MaxIndex - 1) :
          (/\ EndedAfter(n)
           /\ toolLog[n + 1].rc # 0
           /\ toolLog[n + 1].exists
           /\ toolLog[n + 1].size = MIN_SIZE)
          => RoutedUpTo(n + 1)

(* C15: a zero exit with a missing or too small artifact is END_OF_STREAM   *)
(* at every index, 0 included: a warning is logged, nothing is created for  *)
(* that index, there is no fatal error and no abort, and the completion     *)
(* summary is logged (as an error when nothing was routed).                 *)
C15_ZeroExitInvalidArtifact ==
    \A n \in 0..(MaxIndex - 1) :
        (/\ EndedAfter(n)
         /\ toolLog[n + 1].rc = 0
         /\ ~ValidArtifact(toolLog[n + 1]))
        => /\ outcome = "completed"
           /\ \E i \in 1..Len(log) : log[i] = Lg("warn", "extraction_failed_too_small", n)
           /\ RoutedUpTo(n)
           /\ CallsFor(trace, "session.create", n) = {}
           /\ ~Logged("error", "critical_error")
           /\ ~Logged("error", "ffmpeg_failed_first_segment_stderr")
           /\ SummaryLogged
           /\ Logged("info", "process_finished")
           /\ (n = 0) => Logged("error", "no_segments")

\* a zero exit with no file at index 0, and the handler has returned
C15_Witness ==
    /\ outcome = "completed"
    /\ Len(toolLog) = 1
    /\ toolLog[1].rc = 0
    /\ ~toolLog[1].exists

(* C16: ffmpeg is run at most once per index; the run for index k > 0       *)
(* comes after the run for k-1 has returned with an accepted segment and    *)
(* the record of k-1 has been routed; no run comes after a stopping result  *)
(* or after a call that raised.                                             *)
C16_SequentialNoRetry ==
    /\ \A p \in Runs(trace) :
          LET k == trace[p].idx
          IN  /\ \A q \in Runs(trace) : (trace[q].idx = k) => (q = p)
              /\ (k > 0) =>
                    \E u \in CallsFor(trace, "subprocess.run", k - 1),
                       t \in CallsFor(trace, "session.transfer:success", k - 1) :
                       u < t /\ t < p
              /\ \A q \in Raises(trace) : p <= q
    /\ AllAccepted(IF Cardinality(Runs(trace)) > Len(toolLog)
                   THEN Len(toolLog)
                   ELSE Len(toolLog) - 1)
    /\ (StopSeen /\ pc \notin {"classify", "run"}) => pc \in {"summary", "except", "done"}

\* the third run of ffmpeg has been made
C16_Witness == Cardinality(Runs(trace)) = 3 /\ pc = "classify"

(* C17: in a run that reaches the loop the handler ends only after a        *)
(* stopping result (non-zero exit, missing or too small artifact, or an     *)
(* exception), it does end after one, and the head of the loop never        *)
(* refuses the next index.                                                  *)
C17_TerminatesIffStop ==
    /\ []((flowfile.present /\ outcome # "running") => StopSeen)
    /\ [](StopSeen => flowfile.present)
    /\ []((pc = "loop" /\ segment_index < MaxIndex) => ENABLED GetTempFile)
    /\ (StopSeen ~> (outcome # "running"))

\* every index up to the bound was accepted and the loop is still running
C17_Witness ==
    /\ pc = "loop"
    /\ segment_index = MaxIndex
    /\ ~StopSeen
    /\ outcome = "running"

(* C18: the source location is 'idol.reference' when present and not       *)
(* empty, else 'filename' when present and not empty, else the uuid; it is  *)
(* the -i argument of every ffmpeg run and the 'original.link' of every     *)
(* routed record.                                                           *)
C18_SourceLinkFallback ==
    (flowfile.present /\ pc # "start") =>
        LET expected ==
                IF ~flowfile.ref.isNone /\ Len(flowfile.ref.s) > 0 THEN flowfile.ref.s
                ELSE IF ~flowfile.filename.isNone /\ Len(flowfile.filename.s) > 0
                     THEN flowfile.filename.s
                     ELSE <<"u">>
        IN  /\ source_link = Str(expected)
            /\ \A i \in 1..Len(commands) :
                  commands[i][4] = <<"-i">> /\ commands[i][5] = expected
            /\ \A i \in 1..Len(success) : success[i].attrs["original.link"] = expected

\* an empty reference, a filename, and two records routed
C18_Witness ==
    /\ flowfile.present
    /\ flowfile.ref = Str(<<>>)
    /\ flowfile.filename = Str(<<"a", ".", "b">>)
    /\ Len(success) = 2

C20_UnroutedRecords ==
    LET created == Calls(trace, "session.create")
        routed == Calls(trace, "session.transfer:success")
        unrouted == {c \in created : CallsFor(trace, "session.transfer:success", trace[c].idx) = {}}
    IN  /\ Cardinality(unrouted) <= 1
        /\ Cardinality(created) = Cardinality(routed) + Cardinality(unrouted)
        /\ Cardinality(routed) = Len(success)
        /\ \A c \in unrouted :
              trace[c].idx = segment_index /\ mp3_flowfile.index = segment_index
        /\ (outcome = "completed") => unrouted = {}
        /\ (outcome # "running" /\ unrouted # {}) =>
              /\ outcome = "aborted"
              /\ \A c \in unrouted :
                    \E e \in Raises(trace) :
                        /\ c < e
                        /\ trace[e].idx = trace[c].idx
                        /\ trace[e].op \in {"session.putAttribute:raised", "session.write:raised",
                                            "session.transfer:raised"}

\* the handler ended on an exception with the record of segment 1 created and not routed
C20_Witness ==
    /\ outcome = "aborted"
    /\ mp3_flowfile.index = 1
    /\ Len(success) = 1

====
